---- MODULE Spec2Model ----
(***************************************************************************)
(* Model of the container ingestion pipeline of scidatacontainer_db        *)
(* (src/scidatacontainer_db/parsers.py): the constraint table, the         *)
(* constraint resolver, the field validator with its coercers, the two     *)
(* format parsers and parse_container_file with its transaction.           *)
(***************************************************************************)
EXTENDS Naturals, Sequences, FiniteSets, TLC

VARIABLES
    db,        \* the database: tables of the models used by the parsers
    storage,   \* files below MEDIA_ROOT: path -> what was written
    upload,    \* the uploaded file handed to parse_container_file
    env,       \* how the file system and the final save behave for the call
    result,    \* what the last call of parse_container_file ended with
    validated, \* the validated fields of a single call ("d" of parse)
    pc         \* "start" before the call, "done" after it

vars == <<db, storage, upload, env, result, validated, pc>>

(***************************************************************************)
(* JSON values and python values.  Every value is a record with the same   *)
(* fields: t the type, s a string payload, l a list payload.               *)
(***************************************************************************)
Val(t, s, l) == [t |-> t, s |-> s, l |-> l]
Null == Val("null", "", <<>>)
Str(s) == Val("str", s, <<>>)
Bool(b) == Val("bool", IF b THEN "true" ELSE "false", <<>>)
List(l) == Val("list", "", l)
Dict(name) == Val("dict", name, <<>>)

\* python truthiness of a JSON value (line 229, "in_dict[key] and ...")
Truthy(v) ==
    CASE v.t = "null" -> FALSE
      [] v.t = "bool" -> v.s = "true"
      [] v.t = "str" -> v.s # ""
      [] v.t = "list" -> v.l # <<>>
      [] OTHER -> TRUE

EmptyDict == [k \in {} |-> Null]

\* dict.update / {**a, **b}: the keys of b win
DictUpdate(a, b) ==
    [k \in (DOMAIN a) \cup (DOMAIN b) |-> IF k \in DOMAIN b THEN b[k] ELSE a[k]]

(***************************************************************************)
(* Versions.  Release gives the dotted components of the version strings   *)
(* the model uses; version.parse compares releases with the trailing zeros *)
(* dropped, component by component.                                        *)
(***************************************************************************)
VersionStrings == {"0.2", "0.3", "0.3.0", "0.4", "0.5.1", "0.6"}
Release(s) ==
    CASE s = "0.2" -> <<0, 2>>
      [] s = "0.3" -> <<0, 3>>
      [] s = "0.3.0" -> <<0, 3, 0>>
      [] s = "0.4" -> <<0, 4>>
      [] s = "0.5.1" -> <<0, 5, 1>>
      [] s = "0.6" -> <<0, 6>>

RECURSIVE StripZeros(_)
StripZeros(r) ==
    IF r # <<>> /\ r[Len(r)] = 0 THEN StripZeros(SubSeq(r, 1, Len(r) - 1)) ELSE r

\* version.parse(s): the comparison key of the version
version_parse(s) == StripZeros(Release(s))

\* str(v) of a parsed version
version_str(v) ==
    CASE v = <<0, 2>> -> "0.2"
      [] v = <<0, 3>> -> "0.3"
      [] v = <<0, 4>> -> "0.4"
      [] v = <<0, 5, 1>> -> "0.5.1"
      [] v = <<0, 6>> -> "0.6"

\* lexicographic order of two sequences of numbers
RECURSIVE SeqLess(_, _)
SeqLess(a, b) ==
    IF b = <<>> THEN FALSE
    ELSE IF a = <<>> THEN TRUE
    ELSE IF a[1] # b[1] THEN a[1] < b[1]
    ELSE SeqLess(Tail(a), Tail(b))

\* Version.__lt__
VersionLess(v, w) == SeqLess(v, w)

\* the order python's max() uses on the table keys: plain string order, which
\* for the single-digit components of the keys is the order of the components
StrLess(s, t) == SeqLess(Release(s), Release(t))

(***************************************************************************)
(* The constraint table (lines 94-127).  A section is the list of its      *)
(* entries in insertion order; the outer dicts hold references to section  *)
(* objects, so that dict.copy() (line 117) shares them.                    *)
(***************************************************************************)
Entry(key, parser, required) == [key |-> key, parser |-> parser, required |-> required]

content_0_3 ==
    << Entry("uuid", "str", TRUE),
       Entry("replaces", "_replaces_parser", FALSE),
       Entry("containerType", "_containerType_parser", TRUE),
       Entry("created", "_datetime_parser", TRUE),
       Entry("modified", "_datetime_parser", TRUE),
       Entry("static", "bool", TRUE),
       Entry("complete", "bool", TRUE),
       Entry("hash", "str", FALSE),
       Entry("usedSoftware", "_used_software_parser", FALSE),
       Entry("modelVersion", "str", TRUE) >>

meta_0_3 ==
    << Entry("author", "str", TRUE),
       Entry("email", "str", TRUE),
       Entry("comment", "str", FALSE),
       Entry("title", "str", TRUE),
       Entry("keywords", "_keyword_parser", FALSE),
       Entry("description", "str", FALSE) >>

meta_0_5_1_update ==
    << Entry("timestamp", "str", FALSE),
       Entry("doi", "str", FALSE),
       Entry("license", "str", FALSE) >>

\* the objects on the heap after line 115
HeapAtLine115 == [content_obj |-> content_0_3, meta_obj |-> meta_0_3]

\* _constraints_0_3: the outer dict, holding references
_constraints_0_3 == [content |-> "content_obj", meta |-> "meta_obj"]

\* dict.copy(): a new outer dict with the same references
ShallowCopy(d) == d

_constraints_0_5_1 == ShallowCopy(_constraints_0_3)

\* dict.update on a section object: new keys are appended
SectionUpdate(sec, more) ==
    sec \o SelectSeq(more, LAMBDA e : \A i \in 1..Len(sec) : sec[i].key # e.key)

\* the heap after line 122: the object _constraints_0_5_1["meta"] refers to is
\* updated in place
Heap ==
    [HeapAtLine115 EXCEPT ![_constraints_0_5_1.meta] = SectionUpdate(@, meta_0_5_1_update)]

_constraints == [k \in {"0.3", "0.5.1"} |->
                    IF k = "0.3" THEN _constraints_0_3 ELSE _constraints_0_5_1]

\* _constraints[key][filename], dereferenced
Section(key, filename) == Heap[_constraints[key][filename]]

Min(S) == CHOOSE x \in S : \A y \in S : ~ VersionLess(y, x)

MIN_SUPPORTED_VERSION == Min({version_parse(k) : k \in DOMAIN _constraints})

(***************************************************************************)
(* Exceptions.  MetaDBError carries {"error_code", "msg"}; msg is kept as  *)
(* the raise site (kind) and the values it is built from.                  *)
(***************************************************************************)
Exc(type, code, kind, key, file, version) ==
    [type |-> type, code |-> code, kind |-> kind, key |-> key, file |-> file,
     version |-> version]
NoExc == Exc("none", 0, "", "", "", "")
MetaDBError(code, kind, key, file, version) ==
    Exc("MetaDBError", code, kind, key, file, version)
PyError(type) == Exc(type, 0, "", "", "", "")

(***************************************************************************)
(* The database.  datasets is the table behind DataSetBase and DataSet: a  *)
(* bag of rows, kind "base" for a row known by its id only and "full" for  *)
(* a DataSet.  The other tables are sets of rows.                          *)
(***************************************************************************)
EmptyBag == [r \in {} |-> 0]
BagAdd(B, r) ==
    [x \in (DOMAIN B) \cup {r} |-> (IF x \in DOMAIN B THEN B[x] ELSE 0) + (IF x = r THEN 1 ELSE 0)]
\* the number of rows of B that are in S, and B without them
RECURSIVE BagCount(_, _)
BagCount(B, S) ==
    IF S = {} THEN 0
    ELSE LET r == CHOOSE x \in S : TRUE IN B[r] + BagCount(B, S \ {r})
BagRemoveAll(B, S) == [r \in (DOMAIN B) \ S |-> B[r]]

EmptyDb ==
    [datasets |-> EmptyBag, files |-> {}, keywords |-> {}, container_types |-> {},
     software |-> {}]

Row(id, kind, owner, attrs, server_path) ==
    [id |-> id, kind |-> kind, owner |-> owner, attrs |-> attrs,
     server_path |-> server_path]

\* DataSetBase.objects.filter(id=...): every row of the id, a DataSet being a
\* DataSetBase too (lines 267, 273)
DataSetBase_filter(d, id) == {r \in DOMAIN d.datasets : r.id = id}

\* DataSet.objects.filter(id=...): the full rows of the id (lines 67, 268)
DataSet_filter(d, id) == {r \in DOMAIN d.datasets : r.id = id /\ r.kind = "full"}

\* DataSetBase.objects.get_or_create(id=...)[0] (line 69)
DataSetBase_get_or_create(d, id) ==
    IF DataSetBase_filter(d, id) # {} THEN d
    ELSE [d EXCEPT !.datasets = BagAdd(@, Row(id, "base", "", EmptyDict, ""))]

\* the placeholder is kept: line 276 left out
DeleteBase_keeps(d, id) == d

\* obj.delete() of the rows of an id that is only known by its id (line 276)
DeleteBase(d, id) ==
    [d EXCEPT !.datasets =
        BagRemoveAll(@, {r \in DataSetBase_filter(d, id) : r.kind = "base"})]

(***************************************************************************)
(* Coercers (lines 24-91).  Each returns the exception it raises, the      *)
(* value it returns and the database it leaves.                            *)
(***************************************************************************)
Coerced(exc, value, d) == [exc |-> exc, value |-> value, db |-> d]

\* the formats a timestamp string of the model matches: "iso" for
\* fromisoformat (line 33), "offset" for "%Y-%m-%dT%H:%M:%S+%z" (line 38),
\* "named" for "%Y-%m-%d %H:%M:%S %Z" (line 42)
DateFormats(s) ==
    CASE s = "2024-01-01T00:00:00+00:00" -> {"iso"}
      [] s = "2024-01-01T00:00:00++0000" -> {"offset"}
      [] s = "2024-01-01 00:00:00 UTC" -> {"named"}
      [] OTHER -> {}

\* the three strings above name the same instant
_datetime_parser(v, d) ==
    IF v.t # "str" THEN Coerced(PyError("TypeError"), Null, d)
    ELSE IF "iso" \in DateFormats(v.s)
        THEN Coerced(NoExc, Val("datetime", "2024-01-01T00:00:00+00:00", <<>>), d)
    ELSE IF "offset" \in DateFormats(v.s)
        THEN Coerced(NoExc, Val("datetime", "2024-01-01T00:00:00+00:00", <<>>), d)
    ELSE IF "named" \in DateFormats(v.s)
        THEN Coerced(NoExc, Val("datetime", "2024-01-01T00:00:00+00:00", <<>>), d)
    ELSE Coerced(PyError("ValueError"), Null, d)

\* Software.to_Software for every entry, in order
_used_software_parser(v, d) ==
    Coerced(NoExc, Val("software", "", v.l),
            [d EXCEPT !.software = @ \cup {v.l[i] : i \in 1..Len(v.l)}])

_replaces_parser(v, d) ==
    IF DataSet_filter(d, v.s) # {}
    THEN Coerced(NoExc, Val("dataset", v.s, <<>>), d)
    ELSE Coerced(NoExc, Val("dataset", v.s, <<>>), DataSetBase_get_or_create(d, v.s))

\* ContainerType.to_ContainerType: the row of the type, created when new
_containerType_parser(v, d) ==
    Coerced(NoExc, Val("container_type", v.s, <<>>),
            [d EXCEPT !.container_types = @ \cup {v.s}])

\* Keyword.objects.get_or_create(name=entry)[0] for every entry
_keyword_parser(v, d) ==
    Coerced(NoExc, Val("keywords", "", v.l),
            [d EXCEPT !.keywords = @ \cup {v.l[i] : i \in 1..Len(v.l)}])

\* str(x) and bool(x) of python
py_str(v, d) == Coerced(NoExc, Str(v.s), d)
py_bool(v, d) == Coerced(NoExc, Bool(Truthy(v)), d)

\* t(in_dict[key]) of line 234
Coerce(parser, v, d) ==
    CASE parser = "str" -> py_str(v, d)
      [] parser = "bool" -> py_bool(v, d)
      [] parser = "_datetime_parser" -> _datetime_parser(v, d)
      [] parser = "_used_software_parser" -> _used_software_parser(v, d)
      [] parser = "_replaces_parser" -> _replaces_parser(v, d)
      [] parser = "_containerType_parser" -> _containerType_parser(v, d)
      [] parser = "_keyword_parser" -> _keyword_parser(v, d)

(***************************************************************************)
(* The constraint resolver: the property BaseParser._constraints and       *)
(* _read_model_version (lines 140-163, 195-202).                           *)
(***************************************************************************)
\* _read_model_version: self.content["modelVersion"], a KeyError when the
\* key is not there (reading content.json again does not change it)
_read_model_version(content) ==
    IF "modelVersion" \notin DOMAIN content
    THEN [exc |-> PyError("KeyError"), model_version |-> Null]
    ELSE [exc |-> NoExc, model_version |-> content["modelVersion"]]

\* the comparison of line 153 never true
TooOld_never(v) == FALSE

\* line 153
TooOld(v) == VersionLess(v, MIN_SUPPORTED_VERSION)

\* the keys of line 162
KeysBelow(v) == {k \in DOMAIN _constraints : VersionLess(version_parse(k), v)}

\* max() of a non-empty set of keys
StrMax(S) == CHOOSE k \in S : \A j \in S : ~ StrLess(k, j)

\* lines 152-163 for self.model_version mv and its parsed version v: the
\* exception raised, or the key of the entry returned
SelectConstraints(mv, v) ==
    IF TooOld(v)
    THEN [exc |-> MetaDBError(400, "VersionTooOld", version_str(MIN_SUPPORTED_VERSION),
                              "", mv.s),
          key |-> "", model_version |-> mv]
    ELSE IF KeysBelow(v) = {}
    THEN [exc |-> PyError("ValueError"), key |-> "", model_version |-> mv]
    ELSE [exc |-> NoExc, key |-> StrMax(KeysBelow(v)), model_version |-> mv]

\* lines 151-163 after the version was read as rd (lines 149-150)
ConstraintsAfterRead(rd) ==
    IF rd.exc # NoExc THEN [exc |-> rd.exc, key |-> "", model_version |-> rd.model_version]
    ELSE SelectConstraints(rd.model_version, version_parse(rd.model_version.s))

\* the property: the exception it raises, or the key of the entry it returns
\* and self.model_version
BaseParser_constraints(model_version, content) ==
    ConstraintsAfterRead(IF ~ Truthy(model_version) THEN _read_model_version(content)
                         ELSE [exc |-> NoExc, model_version |-> model_version])

(***************************************************************************)
(* The field validator: BaseParser._parse_validate (lines 204-242).        *)
(***************************************************************************)
\* the keys of the table as the pieces the regex of line 231 tells apart: an
\* upper case letter, or a run of other characters
Pieces(key) ==
    CASE key = "containerType" -> <<"container", "T", "ype">>
      [] key = "usedSoftware" -> <<"used", "S", "oftware">>
      [] key = "modelVersion" -> <<"model", "V", "ersion">>
      [] OTHER -> <<key>>

IsUpper(c) == c \in {"T", "S", "V"}
Lower(c) ==
    CASE c = "T" -> "t" [] c = "S" -> "s" [] c = "V" -> "v" [] OTHER -> c

\* re.sub(r'(?<!^)(?=[A-Z])', '_', key).lower()
RECURSIVE SnakeFrom(_, _)
SnakeFrom(p, i) ==
    IF i > Len(p) THEN ""
    ELSE (IF i > 1 /\ IsUpper(p[i]) THEN "_" ELSE "") \o Lower(p[i]) \o SnakeFrom(p, i + 1)
SnakeCase(key) == SnakeFrom(Pieces(key), 1)

\* line 229: the value is converted and stored
NonEmpty(v) == Truthy(v) /\ v # List(<<>>)

Validated(exc, d, dbw) == [exc |-> exc, d |-> d, db |-> dbw]

\* the loop of lines 221-241 from entry i on, d the output so far and dbw the
\* database as the coercers left it
RECURSIVE ValidateFrom(_, _, _, _, _, _)

\* lines 229-241 for entry i, r what the coercer of the entry did: the value
\* is stored under the snake_case key, a ValueError becomes InvalidFieldValue
StoreCoerced(c, i, filename, in_dict, d, r) ==
    IF r.exc.type = "ValueError"
    THEN Validated(MetaDBError(400, "InvalidFieldValue", in_dict[c[i].key].s, "", ""),
                   d, r.db)
    ELSE IF r.exc # NoExc THEN Validated(r.exc, d, r.db)
    ELSE ValidateFrom(c, i + 1, filename, in_dict,
                      DictUpdate(d, [k \in {SnakeCase(c[i].key)} |-> r.value]), r.db)

ValidateFrom(c, i, filename, in_dict, d, dbw) ==
    IF i > Len(c) THEN Validated(NoExc, d, dbw)
    ELSE IF c[i].required /\ c[i].key \notin DOMAIN in_dict
    THEN Validated(MetaDBError(400, "MissingField", c[i].key, filename, ""), d, dbw)
    ELSE IF c[i].key \in DOMAIN in_dict /\ NonEmpty(in_dict[c[i].key])
    THEN StoreCoerced(c, i, filename, in_dict, d,
                      Coerce(c[i].parser, in_dict[c[i].key], dbw))
    ELSE ValidateFrom(c, i + 1, filename, in_dict, d, dbw)

\* _parse_validate(filename, in_dict) of a parser whose content is `content`
\* what _parse_validate leaves: r of the loop, and self.model_version and the
\* table key the property gave as c
ValidatedWith(r, c) ==
    [exc |-> r.exc, d |-> r.d, db |-> r.db, model_version |-> c.model_version,
     key |-> c.key]

\* lines 219-242 with self._constraints evaluated to c (line 219)
ValidateSection(c, filename, in_dict, dbw) ==
    IF c.exc # NoExc THEN ValidatedWith(Validated(c.exc, EmptyDict, dbw), c)
    ELSE ValidatedWith(ValidateFrom(Section(c.key, filename), 1, filename, in_dict,
                                    EmptyDict, dbw), c)

_parse_validate(model_version, content, filename, in_dict, dbw) ==
    ValidateSection(BaseParser_constraints(model_version, content), filename, in_dict, dbw)

(***************************************************************************)
(* The format parsers (lines 284-346) and BaseParser.parse (244-281).      *)
(***************************************************************************)
AbstractMethods == {"_read_content_json", "_read_meta_json", "_read_filelist"}

\* the methods a parser class defines itself
Defines(cls) ==
    IF cls = "ZipContainerParser"
    THEN {"_read_content_json", "_read_meta_json", "_read_filelist"}
    ELSE {"_read_content_json", "_read_meta_json"}

\* cls(): a class that leaves a method of the ABC abstract cannot be
\* instantiated (lines 132, 185-186, 332-346)
Instantiate(cls) ==
    IF AbstractMethods \ Defines(cls) # {} THEN PyError("TypeError") ELSE NoExc

\* _read_content_json / _read_meta_json: what they raise
ReadSectionExc(cls) ==
    IF cls = "Hdf5ContainerParser" THEN MetaDBError(501, "UnsupportedFormat", "", "", "")
    ELSE NoExc

IsJsonName(name) == name \in {"content.json", "meta.json"}

\* File.objects.get_or_create(name, size[, content]) and file_obj.save()
File_get_or_create(dbw, m) ==
    LET row == [name |-> m.name, size |-> m.size,
                content |-> IF IsJsonName(m.name) THEN m.data ELSE ""]
    IN [dbw EXCEPT !.files = @ \cup {row}]

\* ZipContainerParser._read_filelist: the database after the rows of the
\* members from i on are there
RECURSIVE ReadFilelistFrom(_, _, _)
ReadFilelistFrom(members, i, dbw) ==
    IF i > Len(members) THEN dbw
    ELSE ReadFilelistFrom(members, i + 1, File_get_or_create(dbw, members[i]))
_read_filelist(members, dbw) ==
    [files |-> Val("files", "", [i \in 1..Len(members) |-> members[i].name]),
     db |-> ReadFilelistFrom(members, 1, dbw)]

RESERVED_PREFIX == "00000000-0000-0000-0000-00000000"

\* uuid.startswith(RESERVED_PREFIX), on the identifiers of the model
StartsWithReserved(uuid) ==
    uuid \in {RESERVED_PREFIX \o "0001", RESERVED_PREFIX \o "0002"}

\* test_utils.parse_test_data: no record is produced
parse_test_data(uuid) == Row("", "none", "", EmptyDict, "")

\* Model.save() of a DataSet: the full rows of its id are updated, a row is
\* inserted when there is none
Save(dbw, row) ==
    LET n == BagCount(dbw.datasets, DataSet_filter(dbw, row.id))
        rest == BagRemoveAll(dbw.datasets, DataSet_filter(dbw, row.id))
        RECURSIVE AddTimes(_, _)
        AddTimes(B, k) == IF k = 0 THEN B ELSE AddTimes(BagAdd(B, row), k - 1)
    IN [dbw EXCEPT !.datasets = AddTimes(rest, IF n = 0 THEN 1 ELSE n)]

\* DataSet.update_attributes(d, user): the attributes of d are set on the
\* record and it is saved; the owner stays
update_attributes(obj, d, user, dbw) ==
    LET row == [obj EXCEPT !.attrs = DictUpdate(@, d)]
    IN [obj |-> row, db |-> Save(dbw, row)]

\* what parse ends with; branch names the way lines 262-281 took
Parsed(exc, obj, d, dbw, branch) ==
    [exc |-> exc, obj |-> obj, d |-> d, db |-> dbw, branch |-> branch]

\* python's None where a record is expected
NoObj == Row("", "none", "", EmptyDict, "")

\* lines 260-281: the record of the validated d
Reconcile(d, user, dbw) ==
    IF "uuid" \notin DOMAIN d THEN Parsed(PyError("KeyError"), NoObj, d, dbw, "")
    ELSE LET uuid == d["uuid"].s
             rest == [k \in (DOMAIN d) \ {"uuid"} |-> d[k]]
             fresh == Row(uuid, "full", user, [k \in {"complete"} |-> Bool(FALSE)], "")
         IN  IF StartsWithReserved(uuid) THEN Parsed(NoExc, parse_test_data(uuid), d, dbw, "test")
             ELSE IF DataSetBase_filter(dbw, uuid) # {} /\ DataSet_filter(dbw, uuid) # {}
             THEN LET obj == CHOOSE r \in DataSet_filter(dbw, uuid) : TRUE
                      u == update_attributes(obj, rest, user, dbw)
                  IN Parsed(NoExc, u.obj, d, u.db, "update")
             ELSE LET dbd == IF DataSetBase_filter(dbw, uuid) # {}
                             THEN DeleteBase(dbw, uuid) ELSE dbw
                      u == update_attributes(fresh, rest, user, dbd)
                  IN Parsed(NoExc, u.obj, d, u.db,
                            IF DataSetBase_filter(dbw, uuid) # {} THEN "promote"
                            ELSE "create")

\* lines 255-281: d of the file list fl and the validated sections c and m
ParseValidated(up, user, fl, c, m) ==
    IF m.exc # NoExc THEN Parsed(m.exc, NoObj, EmptyDict, m.db, "")
    ELSE Reconcile(DictUpdate(DictUpdate([k \in {"size", "content"} |->
                                             IF k = "size" THEN Val("int", up.size, <<>>)
                                             ELSE fl.files],
                                         c.d), m.d),
                   user, m.db)

\* lines 257-281 after content.json was validated as c
ParseMeta(up, user, fl, c) ==
    IF c.exc # NoExc THEN Parsed(c.exc, NoObj, EmptyDict, c.db, "")
    ELSE ParseValidated(up, user, fl, c,
                        _parse_validate(c.model_version, up.content, "meta", up.meta,
                                        c.db))

\* lines 255-281 after the file list was read as fl
ParseContent(up, user, fl) ==
    ParseMeta(up, user, fl,
              _parse_validate(Null, up.content, "content", up.content, fl.db))

\* BaseParser.parse(filename, user) of a parser of class cls
BaseParser_parse(cls, up, user, dbw) ==
    IF ReadSectionExc(cls) # NoExc THEN Parsed(ReadSectionExc(cls), NoObj, EmptyDict, dbw, "")
    ELSE ParseContent(up, user, _read_filelist(up.members, dbw))

(***************************************************************************)
(* parse_container_file (lines 349-398): the call, its transaction and the *)
(* translation of the exceptions.                                          *)
(***************************************************************************)
MEDIA_ROOT == "/media"

\* the parser class and the extension of a sniffed type (lines 362-372)
ParserOf(mime) ==
    CASE mime = "application/zip" -> "ZipContainerParser"
      [] mime = "application/x-hdf" -> "Hdf5ContainerParser"
      [] OTHER -> ""
ExtensionOf(mime) == IF mime = "application/zip" THEN ".zdc" ELSE ".hdf5"

\* lines 386-398
Translate(exc) ==
    CASE exc.type = "MetaDBError" -> exc
      [] exc.type = "IntegrityError" -> MetaDBError(400, "IntegrityError", "", "", "")
      [] exc.type = "ValidationError" -> MetaDBError(400, "ValidationError", "", "", "")
      [] OTHER -> MetaDBError(500, "Unknown", exc.type, "", "")

\* no transaction: what the call had done stays
Rollback_commits(before, working) == working

\* transaction.atomic() left by an exception: the database of before the call
Rollback(before, working) == before

\* what a call ends with: "record", "test" (None is returned) or "error" with
\* the MetaDBError raised; the branch parse took, whether the call changed the
\* database inside its transaction, whether it wrote the file
Outcome(kind, exc, id, branch, dirty, wrote) ==
    [kind |-> kind, exc |-> exc, id |-> id, branch |-> branch, dirty |-> dirty,
     wrote |-> wrote]
NoOutcome == Outcome("none", NoExc, "", "", FALSE, FALSE)

Ended(dbn, sto, res, d) == [db |-> dbn, storage |-> sto, result |-> res, d |-> d]

\* an exception leaves the with block: rollback, then the except clauses
Raise(exc, before, working, sto, id, d, branch, wrote) ==
    Ended(Rollback(before, working), sto,
          Outcome("error", Translate(exc), id, branch, working # before, wrote), d)

\* lines 378-384: the bytes are written, then the path is saved on the record
Persist(up, e, p, before, sto) ==
    LET path == MEDIA_ROOT \o "/" \o p.obj.id \o ExtensionOf(up.mime)
        written == sto \cup {path}
        saved == Save(p.db, [p.obj EXCEPT !.server_path = path])
    IN  IF e = "open_fails"
        THEN Raise(PyError("OSError"), before, p.db, sto, p.obj.id, p.d, p.branch, FALSE)
        ELSE IF e = "save_fails"
        THEN Raise(PyError("IntegrityError"), before, p.db, written, p.obj.id, p.d, p.branch,
                   TRUE)
        ELSE Ended(saved, written, Outcome("record", NoExc, p.obj.id, p.branch, saved # before, TRUE),
                   p.d)

\* lines 365-384 with what parser.parse did as p
AfterParse(up, e, p, before, sto) ==
    IF p.exc # NoExc THEN Raise(p.exc, before, p.db, sto, "", p.d, "", FALSE)
    ELSE IF p.obj = NoObj /\ up.mime = "application/zip"
    THEN Ended(p.db, sto, Outcome("test", NoExc, "", p.branch, p.db # before, FALSE), p.d)
    ELSE Persist(up, e, p, before, sto)

\* parse_container_file(filename, owner) on database `before` and storage sto
parse_container_file(up, user, e, before, sto) ==
    IF ParserOf(up.mime) = ""
    THEN Raise(MetaDBError(415, "UnsupportedMediaType", "", "", ""), before, before, sto,
               "", EmptyDict, "", FALSE)
    ELSE IF Instantiate(ParserOf(up.mime)) # NoExc
    THEN Raise(Instantiate(ParserOf(up.mime)), before, before, sto, "", EmptyDict, "", FALSE)
    ELSE AfterParse(up, e, BaseParser_parse(ParserOf(up.mime), up, user, before), before,
                    sto)

(***************************************************************************)
(* The uploads of the model: a valid container, and what is taken from it  *)
(* or changed in it.                                                       *)
(***************************************************************************)
MaxKeywords == 1

U1 == "11111111-1111-1111-1111-111111111111"
U2 == "22222222-2222-2222-2222-222222222222"
T1 == RESERVED_PREFIX \o "0001"
Users == {"alice"}
Envs == {"ok", "open_fails", "save_fails"}

IsoDate == "2024-01-01T00:00:00+00:00"
NamedDate == "2024-01-01 00:00:00 UTC"
BadDate == "yesterday"

KeywordLists == UNION {[1..n -> {"laser"}] : n \in 0..MaxKeywords}
KeywordOptions == {{}} \cup {{l} : l \in KeywordLists}

\* f without the keys of S
Without(f, S) == [k \in (DOMAIN f) \ S |-> f[k]]

\* content.json of a container: uuid, version, "replaces" ("" for none), the
\* values of "static" and "created", a null "hash"
Content(uuid, ver, replaces, static, created, hash) ==
    LET all == [k \in {"uuid", "replaces", "containerType", "created", "modified",
                       "static", "complete", "hash", "modelVersion"} |->
                   CASE k = "uuid" -> Str(uuid)
                     [] k = "replaces" -> Str(replaces)
                     [] k = "containerType" -> Dict("myApp")
                     [] k = "created" -> Str(created)
                     [] k = "modified" -> Str(IsoDate)
                     [] k = "static" -> Bool(static)
                     [] k = "complete" -> Bool(TRUE)
                     [] k = "hash" -> hash
                     [] k = "modelVersion" -> Str(ver)]
    IN Without(all, (IF replaces = "" THEN {"replaces"} ELSE {})
                    \cup (IF hash = Str("") THEN {"hash"} ELSE {}))

\* meta.json: the keyword list of kw, a set of one list or of none (the key is
\* left out), and a timestamp ("" for none)
Meta(kw, timestamp) ==
    LET all == [k \in {"author", "email", "title", "keywords", "timestamp"} |->
                   CASE k = "author" -> Str("A. Author")
                     [] k = "email" -> Str("author@example.org")
                     [] k = "title" -> Str("A dataset")
                     [] k = "keywords" -> IF kw = {} THEN Null ELSE List(CHOOSE l \in kw : TRUE)
                     [] k = "timestamp" -> Str(timestamp)]
    IN Without(all, (IF kw = {} THEN {"keywords"} ELSE {})
                    \cup (IF timestamp = "" THEN {"timestamp"} ELSE {}))

\* the members of the archive; data of content.json stands for its parsed
\* content, which differs with the uuid
Members(uuid) ==
    << [name |-> "content.json", size |-> "412", data |-> uuid],
       [name |-> "meta.json", size |-> "120", data |-> "meta"],
       [name |-> "data.bin", size |-> "1024", data |-> ""] >>

Upload(mime, content, meta, uuid) ==
    [mime |-> mime, size |-> "2048", content |-> content, meta |-> meta,
     members |-> Members(uuid)]

\* an upload that is not an archive
Blob(mime) == [mime |-> mime, size |-> "2048", content |-> EmptyDict, meta |-> EmptyDict,
               members |-> <<>>]
NoUpload == Blob("")

RequiredContent == {"uuid", "containerType", "created", "modified", "static", "complete",
                    "modelVersion"}
RequiredMeta == {"author", "email", "title"}

\* the sets of keys taken out of a valid container
MissingSets ==
    {{}} \cup {{k} : k \in RequiredContent \cup RequiredMeta} \cup {{"created", "title"}}

Versions == VersionStrings

\* the uploads of a single call
SingleUploads ==
    { Upload("application/zip",
             Without(Content(u, ver, r, st, cr, h), miss),
             Without(Meta(kw, ts), miss), u) :
        u \in {U1, T1}, ver \in Versions, r \in {"", U2}, st \in BOOLEAN,
        cr \in {IsoDate, NamedDate, BadDate}, h \in {Str(""), Null},
        miss \in MissingSets, kw \in KeywordOptions, ts \in {"", IsoDate} }
    \cup {Blob("application/x-hdf"), Blob("text/plain")}

\* the uploads of a run of calls
ValidUpload(u, r, kw) ==
    Upload("application/zip", Content(u, "0.4", r, TRUE, IsoDate, Str("")), Meta(kw, ""), u)
RunUploads ==
    { ValidUpload(u, r, {}) : u \in {U1, U2, T1}, r \in {"", U1, U2} }
    \cup { ValidUpload(u, "", {<<"laser">>}) : u \in {U1, U2} }
    \cup { [ValidUpload(u, U2, {<<"laser">>}) EXCEPT !.meta = Without(@, {"title"})] :
             u \in {U1, U2, T1} }
    \cup { Upload("application/zip", Content(U1, "0.2", U2, TRUE, IsoDate, Str("")),
                  Meta({}, ""), U1),
           Upload("application/zip", Content(U1, "0.3", U2, TRUE, IsoDate, Str("")),
                  Meta({}, ""), U1),
           Upload("application/zip", Content(U2, "0.5.1", U1, TRUE, BadDate, Str("")),
                  Meta({}, ""), U2),
           Blob("application/x-hdf"), Blob("text/plain") }
RunEnvs == {"ok", "save_fails"}

\* a database a run of calls leaves: U1 uploaded with "replaces" naming U2
Seeded == parse_container_file(ValidUpload(U1, U2, {<<"laser">>}), "alice", "ok", EmptyDb, {})

(***************************************************************************)
(* Specifications.  SpecCall: one call of parse_container_file, on every   *)
(* upload of SingleUploads.  Spec: any run of calls on RunUploads, from an *)
(* empty database.                                                         *)
(***************************************************************************)
InitCall ==
    /\ \E s \in {Ended(EmptyDb, {}, NoOutcome, EmptyDict), Seeded} : db = s.db /\ storage = s.storage
    /\ upload \in SingleUploads
    /\ env \in Envs
    /\ result = NoOutcome
    /\ validated = EmptyDict
    /\ pc = "start"

\* the call of parse_container_file(upload, user)
Call ==
    /\ pc = "start"
    /\ \E user \in Users :
        \E r \in {parse_container_file(upload, user, env, db, storage)} :
           /\ db' = r.db
           /\ storage' = r.storage
           /\ result' = r.result
           /\ validated' = r.d
    /\ pc' = "done"
    /\ UNCHANGED <<upload, env>>

NextCall == Call
SpecCall == InitCall /\ [][NextCall]_vars

Init ==
    /\ db = EmptyDb
    /\ storage = {}
    /\ upload = NoUpload
    /\ env = "ok"
    /\ result = NoOutcome
    /\ validated = EmptyDict
    /\ pc = "done"

\* a request: parse_container_file(up, user) in surroundings e
Ingest ==
    \E up \in RunUploads, e \in RunEnvs, user \in Users :
        \E r \in {parse_container_file(up, user, e, db, storage)} :
           /\ db' = r.db
           /\ storage' = r.storage
           /\ result' = r.result
           /\ UNCHANGED <<upload, env, validated, pc>>

Next == Ingest
Spec == Init /\ [][Next]_vars

(***************************************************************************)
(* Properties.                                                             *)
(***************************************************************************)
Ids == {U1, U2, T1}
IsArchive == upload.mime = "application/zip"
HasVersion == "modelVersion" \in DOMAIN upload.content
Declared == upload.content["modelVersion"].s
RowsOf(d, id) == BagCount(d.datasets, {r \in DOMAIN d.datasets : r.id = id})
FullOf(d, id) ==
    BagCount(d.datasets, {r \in DOMAIN d.datasets : r.id = id /\ r.kind = "full"})

\* the required keys a container lacks
Lacking(up) == (RequiredContent \ DOMAIN up.content) \cup (RequiredMeta \ DOMAIN up.meta)

\* the table version the specification selects for v: the highest one <= v
HighestAtMost(v) ==
    CHOOSE k \in {"0.3", "0.5.1"} :
        /\ ~ VersionLess(v, version_parse(k))
        /\ \A j \in {"0.3", "0.5.1"} :
              ~ VersionLess(v, version_parse(j))
                  => ~ VersionLess(version_parse(k), version_parse(j))

\* C1: for every declared version >= 0.3 the resolver does not fail and returns
\* the table entry of the highest table version <= the declared one.
C1_ResolvesHighestAtMost ==
    (pc = "done" /\ IsArchive /\ HasVersion
        /\ ~ VersionLess(version_parse(Declared), <<0, 3>>))
    => LET c == BaseParser_constraints(Null, upload.content)
       IN /\ c.exc = NoExc
          /\ \A f \in {"content", "meta"} :
                Section(c.key, f) = Section(HighestAtMost(version_parse(Declared)), f)
          /\ ~ (result.kind = "error" /\ result.exc.code = 500)

\* C2: a container that lacks one required field of content.json or meta.json
\* (and is valid otherwise, with a version the resolver accepts when it has
\* one) ends with MissingField, code 400, naming that field and its file.
C2_MissingFieldNamed ==
    \A k \in RequiredContent \cup RequiredMeta :
        (pc = "done" /\ IsArchive /\ Lacking(upload) = {k}
            /\ (HasVersion => Declared \in {"0.4", "0.5.1", "0.6"})
            /\ ("created" \in DOMAIN upload.content
                    => upload.content["created"].s # BadDate))
        => /\ result.kind = "error"
           /\ result.exc = MetaDBError(400, "MissingField", k,
                                       IF k \in RequiredContent THEN "content"
                                       ELSE "meta", "")

\* C3: every identifier has at most one record, never a placeholder and a full
\* record together; a call that produces a record leaves exactly one full
\* record of its identifier (a placeholder of it is gone, an existing record
\* is updated in place and keeps its owner); an identifier that appears
\* otherwise appears as a placeholder, and every "replaces" names a record.
C3_Step ==
    /\ \A id \in Ids : RowsOf(db', id) <= 1
    /\ result'.kind = "record"
          => RowsOf(db', result'.id) = 1 /\ FullOf(db', result'.id) = 1
    /\ \A id \in Ids :
          (RowsOf(db, id) = 0 /\ RowsOf(db', id) = 1 /\ id # result'.id)
              => FullOf(db', id) = 0
    /\ \A r \in DOMAIN db'.datasets :
          "replaces" \in DOMAIN r.attrs => RowsOf(db', r.attrs["replaces"].s) = 1
    /\ \A r \in DOMAIN db.datasets :
          r.kind = "full"
              => \E n \in DOMAIN db'.datasets :
                    n.id = r.id /\ n.kind = "full" /\ n.owner = r.owner
C3_IdentityInvariant == [][C3_Step]_vars

\* a placeholder was replaced by the full record of its identifier
C3_Witness ==
    /\ result.kind = "record" /\ result.branch = "promote"
    /\ RowsOf(db, result.id) = 1 /\ FullOf(db, result.id) = 1
    /\ \E r \in DOMAIN db.datasets : r.kind = "base"

\* C4: a call for a reserved test identifier returns no record and leaves the
\* database and the storage as they were.
C4_TestUploadLeavesStore ==
    [][result'.kind = "test" => (db' = db /\ storage' = storage)]_vars

\* C5: an upload sniffed as application/x-hdf ends with UnsupportedFormat,
\* code 501, and nothing is written.
C5_Hdf5Unsupported ==
    (pc = "done" /\ upload.mime = "application/x-hdf")
    => /\ result.kind = "error"
       /\ result.exc.code = 501
       /\ result.exc.kind = "UnsupportedFormat"
       /\ ~ result.wrote

\* C6: a call that ends with an error leaves the database as it was before
\* the call.
C6_RollbackOnError == [][result'.kind = "error" => db' = db]_vars

\* an error after the call had deleted a placeholder and saved the record
C6_Witness ==
    /\ result.kind = "error" /\ result.dirty /\ result.branch = "promote"
    /\ result.exc.kind = "IntegrityError"
    /\ RowsOf(db, result.id) = 1 /\ FullOf(db, result.id) = 0

\* C7: for a declared version in [0.3, 0.5.1) the validated output has no
\* timestamp, doi or license.
C7_GatedMetaFields ==
    (pc = "done" /\ IsArchive /\ HasVersion /\ validated # EmptyDict
        /\ ~ VersionLess(version_parse(Declared), <<0, 3>>)
        /\ VersionLess(version_parse(Declared), <<0, 5, 1>>))
    => {"timestamp", "doi", "license"} \cap DOMAIN validated = {}

\* a container of the archive type that declares a version below 0.3
TooOldUpload ==
    IsArchive /\ HasVersion /\ VersionLess(version_parse(Declared), <<0, 3>>)

\* C8: a container declaring a version below 0.3 ends with VersionTooOld,
\* code 400, carrying the declared version and the minimum, whatever its
\* other fields are; database and storage stay as they were.
C8_VersionTooOld ==
    [][(pc = "start" /\ TooOldUpload)
        => /\ result'.kind = "error"
           /\ result'.exc = MetaDBError(400, "VersionTooOld", "0.3", "", Declared)
           /\ db' = db
           /\ storage' = storage]_vars

\* a too old container that also lacks a required field, on a database with
\* records, after the rows of its members were rolled back
C8_Witness ==
    /\ pc = "done" /\ TooOldUpload /\ Lacking(upload) # {}
    /\ result.exc.kind = "VersionTooOld" /\ result.dirty
    /\ db # EmptyDb

\* the internal name of a field of the table
InternalName(key) ==
    CASE key = "containerType" -> "container_type"
      [] key = "usedSoftware" -> "used_software"
      [] key = "modelVersion" -> "model_version"
      [] OTHER -> key

\* neither null nor an empty collection
HasValue(v) == v.t # "null" /\ ~ (v.t = "list" /\ v.l = <<>>)

\* C9: every declared field that is present with a value that is neither null
\* nor an empty collection is in the validated output under its internal name.
C9_NonEmptyFieldsKept ==
    (pc = "done" /\ IsArchive /\ validated # EmptyDict)
    => /\ \A k \in DOMAIN upload.content :
             HasValue(upload.content[k]) => InternalName(k) \in DOMAIN validated
       /\ \A k \in (DOMAIN upload.meta) \cap {"author", "email", "comment", "title",
                                             "keywords", "description"} :
             HasValue(upload.meta[k]) => InternalName(k) \in DOMAIN validated

\* C10: a call that ends with an error has written nothing to the storage.
C10_NoWriteOnError == [][result'.kind = "error" => storage' = storage]_vars

====
